---- MODULE Spec2Model ----
(***************************************************************************)
(* Model of src/src/dimse/wadoRs.ts: the WADO-RS retrieve pipeline         *)
(* (doWadoRs, addFileToBuffer, convertToJpeg) over a study directory of    *)
(* the storage root, a remote catalogue answering the metadata query, the  *)
(* fetch orchestrator and the JPEG tool.                                   *)
(***************************************************************************)
EXTENDS Integers, Sequences, FiniteSets, TLC

\* Number of instances the remote source knows for a study.
MaxInst == 2

Insts == 1..MaxInst

\* The empty / absent UID (`seriesInstanceUid ?? ''`, `sopInstanceUid ?? ''`).
NoUid == 0

\* Requests that may be in flight.
Requests == {1, 2}

\* The study the requests name; its directory under the storage root is the
\* modelled disk.
Studies == {"1.2.3"}

\* Series of the remote catalogue: instances alternate between series 1 and 2;
\* series 3 holds one record that carries no SOPInstanceUID (00080018).
SeriesIds == {1, 2, 3}

SeriesOf(i) == ((i - 1) % 2) + 1

\* DataFormat, "undefined" when the request leaves it unset.
Unset == "undefined"

DataFormat == {"pixelData", "bulkData", "rendered", "thumbnail"}

term == "\r\n"

QUERY_LEVEL == [STUDY |-> "STUDY", SERIES |-> "SERIES", IMAGE |-> "IMAGE"]

\* Output names the JPEG tool may leave beside an object.
JpgExts == {".jpg", ".0.jpg"}

-----------------------------------------------------------------------------
(* Bytes: a buffer is a sequence of tokens; Buffer.concat is \o.            *)

NoCall == <<0, 0>>

Tok(t, s, i, q, by) == [t |-> t, s |-> s, i |-> i, q |-> q, by |-> by]

\* Buffer.from(<string>)
Text(s) == Tok("text", s, 0, 0, NoCall)

\* The bytes of the DICOM object of instance i.
DicomBytes(i) == Tok("dicom", "", i, 0, NoCall)

\* The Pixel Data subrange of the object of instance i.
PixelBytes(i) == Tok("pixel", "", i, 0, NoCall)

\* The bytes of a JPEG file: which object, which output name, the quality it
\* was written at and the render call that wrote it (NoCall: an earlier run).
JpegBytes(i, ext, q, by) == Tok("jpeg", ext, i, q, by)

\* `undefined`
Undefined == Tok("undefined", "", 0, 0, NoCall)

\* '+Jq', asThumbnail ? '10' : '100'
Quality(asThumbnail) == IF asThumbnail THEN 10 ELSE 100

\* A JPEG file slot of the disk: q = 0 when the file does not exist.
NoFile == [q |-> 0, by |-> NoCall]

-----------------------------------------------------------------------------
VARIABLES
    dirExists,  \* storageRoot/<study> exists (as a directory)
    objs,       \* instances whose object file storageRoot/<study>/<uid> exists
    jpg,        \* [Insts \X JpgExts -> file]: the .jpg / .0.jpg beside each object
    req,        \* [Requests -> record]: the state of each doWadoRs invocation
    task,       \* [Requests -> Seq(record)]: the addFileToBuffer calls of a request
    rc,         \* [call id -> record]: the convertToJpeg calls
    mimeType    \* config.get(ConfParams.MIMETYPE)

vars == <<dirExists, objs, jpg, req, task, rc, mimeType>>

disk == <<dirExists, objs, jpg>>

-----------------------------------------------------------------------------
(* Collaborators (utils/fileHelper, dimse/findData, dimse/fetchData).       *)

\* A path below the study directory: <<>> is the directory itself, <<i>> the
\* object of instance i, <<i, j>> a path below an object file.
\* fileExists(path)
fileExists(path, dir, os) ==
    CASE Len(path) = 0 -> dir
      [] Len(path) = 1 -> path[1] \in os
      [] OTHER -> FALSE

\* The remote catalogue: one record per instance, then the record of series 3
\* that has no SOPInstanceUID.
Catalogue ==
    [k \in 1..(MaxInst + 1) |->
        IF k <= MaxInst THEN [series |-> SeriesOf(k), uid |-> k]
                        ELSE [series |-> 3, uid |-> NoUid]]

Matches(rec, series, sop) ==
    /\ (series = NoUid \/ rec.series = series)
    /\ (sop = NoUid \/ rec.uid = sop)

RECURSIVE Filter(_, _, _)
Filter(s, series, sop) ==
    IF s = <<>> THEN <<>>
    ELSE (IF Matches(Head(s), series, sop) THEN <<Head(s).uid>> ELSE <<>>)
         \o Filter(Tail(s), series, sop)

\* doFind(QUERY_LEVEL.IMAGE, {StudyInstanceUID, SeriesInstanceUID, SOPInstanceUID})
\* merged: the SOPInstanceUID (or NoUid) of every matching record, in order.
doFind(series, sop) == Filter(Catalogue, series, sop)

\* What a successful fetch may store: at least the instances of the scope.
FetchedSets(series, sop) ==
    LET scope == {i \in Insts : Matches([series |-> SeriesOf(i), uid |-> i], series, sop)}
    IN  {X \in SUBSET Insts : scope \subseteq X}

-----------------------------------------------------------------------------
(* Request state.                                                           *)

NoResponse == [contentType |-> "", buffer |-> <<>>]

IdleReq ==
    [pc |-> "idle", study |-> "", series |-> NoUid, sop |-> NoUid, fmt |-> Unset,
     isDir |-> TRUE, useCache |-> FALSE, hitKnown |-> FALSE,
     findLevel |-> "", json |-> <<>>, foundInstances |-> <<>>, probes |-> <<>>,
     fetchCalls |-> <<>>, fetchState |-> "none",
     listed |-> FALSE, files |-> <<>>, doneOrder |-> <<>>, compressFailed |-> FALSE,
     convert |-> "none", buff |-> Undefined,
     response |-> NoResponse, error |-> ""]

NewReq(study, series, sop, fmt) ==
    [IdleReq EXCEPT !.pc = "start", !.study = study, !.series = series,
                    !.sop = sop, !.fmt = fmt]

\* pathname (lines 143-152) relative to the study directory.
pathname(r) == IF req[r].sop # NoUid THEN <<req[r].sop>> ELSE <<>>

\* A level that starts at SERIES.
queryLevelSeries(series) == QUERY_LEVEL.SERIES

\* queryLevel (lines 142-148)
queryLevel(series) ==
    IF series # NoUid THEN QUERY_LEVEL.SERIES ELSE QUERY_LEVEL.STUDY

Fail(r, err) == [req EXCEPT ![r].pc = "failed", ![r].error = err]

\* Where a request goes once the cache decision (and fetch) is over.
AfterFetch(r) ==
    IF req[r].fmt = "thumbnail" THEN "thumbnail"
    ELSE IF req[r].isDir THEN "readdir" ELSE "single"

-----------------------------------------------------------------------------
(* Initial states.                                                          *)

\* The disk before the requests: no study directory, or a directory holding any
\* set of objects, with JPEGs of an earlier run beside the first of them: a
\* `.jpg` left by a full-quality call, a `.0.jpg` left by a thumbnail call.
StaleJpgs ==
    {[e \in Insts \X JpgExts |->
         IF e[1] = 1 /\ e[2] \in E
         THEN [q |-> Quality(e[2] = ".0.jpg"), by |-> NoCall]
         ELSE NoFile] :
       E \in SUBSET JpgExts}

InitDisk ==
    /\ dirExists \in BOOLEAN
    /\ objs \in SUBSET Insts
    /\ jpg \in StaleJpgs
    /\ ~dirExists => objs = {}
    /\ \A i \in Insts : i \notin objs => \A e \in JpgExts : jpg[<<i, e>>] = NoFile

\* Values the configuration may give the MIME type of an object.
MimeTypes == {"application/dicom", "application/octet-stream"}

\* The configured MIME type is read by line 128 only, on the path of a request
\* with no dataFormat; for the other requests it is left at its first value.
Init ==
    /\ InitDisk
    /\ \E study \in Studies, series \in SeriesIds \cup {NoUid},
          sop \in Insts \cup {NoUid}, fmt \in DataFormat \cup {Unset} :
          req = [r \in Requests |->
                    IF r = 1 THEN NewReq(study, series, sop, fmt) ELSE IdleReq]
    /\ task = [r \in Requests |-> <<>>]
    /\ rc = <<>>
    /\ mimeType \in MimeTypes
    /\ (req[1].fmt # Unset) => mimeType = "application/dicom"

-----------------------------------------------------------------------------
(* doWadoRs: the cache check (lines 154-180).                               *)

\* Lines 155-159: is the path a directory or a file?
CheckPath(r) ==
    /\ req[r].pc = "start"
    /\ LET isDir == IF fileExists(pathname(r), dirExists, objs)
                    THEN Len(pathname(r)) = 0
                    ELSE TRUE
       IN  req' = [req EXCEPT ![r].isDir = isDir,
                              ![r].pc = IF isDir THEN "find" ELSE "exists"]
    /\ UNCHANGED <<disk, task, rc>>
    /\ UNCHANGED mimeType

\* Lines 164-172: the metadata query, then the synchronous part of the map
\* callbacks: every record with a SOPInstanceUID is pushed to foundInstances
\* and its existence probe is started; a record without one yields true.
RECURSIVE WithUid(_)
WithUid(s) ==
    IF s = <<>> THEN <<>>
    ELSE (IF Head(s) # NoUid THEN <<Head(s)>> ELSE <<>>) \o WithUid(Tail(s))

FindInstances(r) ==
    /\ req[r].pc = "find"
    /\ \/ LET json == doFind(req[r].series, req[r].sop)
          IN  req' = [req EXCEPT ![r].findLevel = QUERY_LEVEL.IMAGE,
                                 ![r].json = json,
                                 ![r].foundInstances = WithUid(json),
                                 ![r].probes = [k \in 1..Len(json) |->
                                                  IF json[k] # NoUid THEN "pending" ELSE "true"],
                                 ![r].pc = "probe"]
       \/ req' = Fail(r, "QueryFailure")
    /\ UNCHANGED <<disk, task, rc>>
    /\ UNCHANGED mimeType

\* Line 169: one existence probe completes.
ProbeInstance(r, k) ==
    /\ req[r].pc = "probe"
    /\ k \in 1..Len(req[r].probes)
    /\ req[r].probes[k] = "pending"
    /\ req' = [req EXCEPT ![r].probes[k] =
                  IF fileExists(<<req[r].json[k]>>, dirExists, objs) THEN "true" ELSE "false"]
    /\ UNCHANGED <<disk, task, rc>>
    /\ UNCHANGED mimeType

\* A reduction that is satisfied by any one present file.
reduceSome(ps) == ps = <<>> \/ \E k \in 1..Len(ps) : ps[k] = "true"

\* Line 175: foundPromises.reduce((prev, curr) => prev && curr, true)
RECURSIVE reduce(_)
reduce(ps) ==
    IF ps = <<>> THEN TRUE ELSE (Head(ps) = "true") /\ reduce(Tail(ps))

UseCacheDir(r) ==
    /\ req[r].pc = "probe"
    /\ \A k \in 1..Len(req[r].probes) : req[r].probes[k] # "pending"
    /\ LET hit == reduce(req[r].probes)
       IN  req' = [req EXCEPT ![r].useCache = hit, ![r].hitKnown = TRUE,
                              ![r].pc = IF hit THEN AfterFetch(r) ELSE "fetch"]
    /\ UNCHANGED <<disk, task, rc>>
    /\ UNCHANGED mimeType

\* Line 179: useCache = await fileExists(pathname)
UseCacheFile(r) ==
    /\ req[r].pc = "exists"
    /\ LET hit == fileExists(pathname(r), dirExists, objs)
       IN  req' = [req EXCEPT ![r].useCache = hit, ![r].hitKnown = TRUE,
                              ![r].pc = IF hit THEN AfterFetch(r) ELSE "fetch"]
    /\ UNCHANGED <<disk, task, rc>>
    /\ UNCHANGED mimeType

-----------------------------------------------------------------------------
(* doWadoRs: the fetch (lines 182-187).                                     *)

\* A fetch that is started but not awaited.
FetchCallUnawaited(r) ==
    /\ req[r].pc = "fetch"
    /\ req' = [req EXCEPT
                  ![r].fetchCalls = Append(@, <<req[r].study, req[r].series, req[r].sop,
                                                queryLevel(req[r].series)>>),
                  ![r].fetchState = "called",
                  ![r].pc = AfterFetch(r)]
    /\ UNCHANGED <<disk, task, rc>>
    /\ UNCHANGED mimeType

\* A call that waits while another request's fetch of the same scope is in
\* flight.
FetchCallLocked(r) ==
    /\ req[r].pc = "fetch"
    /\ \A o \in Requests \ {r} :
          ~(/\ req[o].fetchState = "called"
            /\ <<req[o].study, req[o].series, req[o].sop>>
                  = <<req[r].study, req[r].series, req[r].sop>>)
    /\ req' = [req EXCEPT
                  ![r].fetchCalls = Append(@, <<req[r].study, req[r].series, req[r].sop,
                                                queryLevel(req[r].series)>>),
                  ![r].fetchState = "called",
                  ![r].pc = "fetching"]
    /\ UNCHANGED <<disk, task, rc>>
    /\ UNCHANGED mimeType

\* Line 186: the call of waitOrFetchData, which the request awaits.
FetchCall(r) ==
    /\ req[r].pc = "fetch"
    /\ req' = [req EXCEPT
                  ![r].fetchCalls = Append(@, <<req[r].study, req[r].series, req[r].sop,
                                                queryLevel(req[r].series)>>),
                  ![r].fetchState = "called",
                  ![r].pc = "fetching"]
    /\ UNCHANGED <<disk, task, rc>>
    /\ UNCHANGED mimeType

\* A return after which the expected instances are recomputed from what the
\* directory then holds.
FetchReturnRecomputed(r) ==
    /\ req[r].fetchState = "called"
    /\ \/ \E X \in FetchedSets(req[r].series, req[r].sop) :
             /\ objs' = objs \cup X
             /\ dirExists' = TRUE
             /\ req' = [req EXCEPT ![r].fetchState = "returned",
                                   ![r].foundInstances =
                                       WithUid([i \in Insts |->
                                                  IF i \in objs \cup X THEN i ELSE NoUid]),
                                   ![r].pc = IF @ = "fetching" THEN AfterFetch(r) ELSE @]
       \/ /\ UNCHANGED <<dirExists, objs>>
          /\ req' = [req EXCEPT ![r].fetchState = "failed",
                                ![r].error = IF req[r].pc = "fetching" THEN "FetchFailure" ELSE @,
                                ![r].pc = IF @ = "fetching" THEN "failed" ELSE @]
    /\ UNCHANGED <<jpg, task, rc>>
    /\ UNCHANGED mimeType

\* waitOrFetchData returns: the scope is on disk, or the fetch failed.
FetchReturn(r) ==
    /\ req[r].fetchState = "called"
    /\ \/ \E X \in FetchedSets(req[r].series, req[r].sop) :
             /\ objs' = objs \cup X
             /\ dirExists' = TRUE
             /\ req' = [req EXCEPT ![r].fetchState = "returned",
                                   ![r].pc = IF @ = "fetching" THEN AfterFetch(r) ELSE @]
       \/ /\ UNCHANGED <<dirExists, objs>>
          /\ req' = [req EXCEPT ![r].fetchState = "failed",
                                ![r].error = IF req[r].pc = "fetching" THEN "FetchFailure" ELSE @,
                                ![r].pc = IF @ = "fetching" THEN "failed" ELSE @]
    /\ UNCHANGED <<jpg, task, rc>>
    /\ UNCHANGED mimeType

-----------------------------------------------------------------------------
(* Buffers and the multipart body (lines 132-135, 223-247).                 *)

\* Configuration values (utils/config): the MIME type is whatever the
\* deployment configured, the transfer syntax is opaque to this file.
config == [MIMETYPE |-> mimeType, XTRANSFER |-> "<config:transferSyntax>"]

\* Lines 132-135: header line, blank line, payload, CRLF.
Wrap(header, returnData) == <<Text(header), Text(term), returnData, Text(term)>>

\* The resolved values in the order in which the transforms completed.
CollectByCompletion(ts, doneOrder) == [j \in 1..Len(doneOrder) |-> ts[doneOrder[j]].part]

\* Lines 210-214 / 218: the resolved values, at the index of their entry.
CollectBuffers(ts, doneOrder) == [k \in 1..Len(ts) |-> ts[k].part]

\* Lines 225-232: drop the undefined buffers, then for each buffer push the
\* opening boundary and the buffer, then push the closing boundary.
RECURSIVE PushParts(_, _)
PushParts(buffers, boundary) ==
    IF buffers = <<>> THEN <<>>
    ELSE (IF Head(buffers) # <<Undefined>>
          THEN <<Text("--" \o boundary \o term)>> \o Head(buffers)
          ELSE <<>>)
         \o PushParts(Tail(buffers), boundary)

\* An assembly whose pushes are deferred past the concatenation.
multipartUnawaited(buffers, boundary) == <<Text("--" \o boundary \o "--" \o term)>>

multipart(buffers, boundary) ==
    PushParts(buffers, boundary) \o <<Text("--" \o boundary \o "--" \o term)>>

\* Lines 235-241
type(fmt) ==
    IF fmt \in {"bulkData", "pixelData"} THEN "application/octet-stream"
    ELSE IF fmt = "rendered" THEN "image/jpeg"
    ELSE "application/dicom"

\* Lines 223-247: every transform has resolved; the response of request r,
\* whose record is rq and whose transforms are ts.
Assemble(rq, ts) ==
    LET boundary == rq.study
        buffers == CollectBuffers(ts, rq.doneOrder)
    IN  [rq EXCEPT
           !.pc = "done",
           !.response = [contentType |-> "multipart/related;type='" \o type(rq.fmt)
                                            \o "';boundary=" \o boundary,
                         buffer |-> multipart(buffers, boundary)]]

-----------------------------------------------------------------------------
(* Settling of the transforms of a request (Promise.all of lines 210-214,   *)
(* the await of line 218, the catch block of lines 249-252). Promise        *)
(* reactions run before the next I/O completion, so the continuation of     *)
(* the request is part of the step that settles the transform.              *)

\* Transform k resolves with its part; the last one to resolve lets the
\* request assemble its response.
Resolve(rq, r, k, part) ==
    LET ts == [task[r] EXCEPT ![k].pc = "done", ![k].part = part, ![k].returnData = part[3]]
        rq1 == [rq[r] EXCEPT !.doneOrder = Append(@, k)]
    IN  /\ task' = [task EXCEPT ![r] = ts]
        /\ req' = [rq EXCEPT ![r] =
                     IF rq1.pc = "transform" /\ \A j \in 1..Len(ts) : ts[j].pc \in {"done", "skip"}
                     THEN Assemble(rq1, ts)
                     ELSE rq1]

\* A rejection that is swallowed: the failed transform counts as settled and
\* the request goes on to assemble what the others produced.
RejectSwallowed(rq, r, k, err) ==
    LET ts == [task[r] EXCEPT ![k].pc = "failed", ![k].err = err]
    IN  /\ task' = [task EXCEPT ![r] = ts]
        /\ req' = [rq EXCEPT ![r] =
                     IF rq[r].pc = "transform"
                        /\ \A j \in 1..Len(ts) : ts[j].pc \in {"done", "skip", "failed"}
                     THEN Assemble(rq[r], ts)
                     ELSE rq[r]]

\* Transform k rejects: the request fails with its error at once; the other
\* transforms keep running.
Reject(rq, r, k, err) ==
    /\ task' = [task EXCEPT ![r][k].pc = "failed", ![r][k].err = err]
    /\ req' = IF rq[r].pc = "transform"
              THEN [rq EXCEPT ![r].pc = "failed", ![r].error = err]
              ELSE rq

-----------------------------------------------------------------------------
(* The callers of convertToJpeg.                                            *)

\* A thumbnail return that does not test the buffer.
ThumbnailReturnUnchecked(r, threw, buff) ==
    /\ req' = IF threw
              THEN [req EXCEPT ![r].pc = "failed", ![r].error = "RenderFailure",
                               ![r].convert = "threw"]
              ELSE [req EXCEPT ![r].pc = "done", ![r].convert = "returned",
                               ![r].buff = buff,
                               ![r].response = [contentType |-> "image/jpeg",
                                                buffer |-> <<buff>>]]
    /\ UNCHANGED task

\* Lines 194-202: the thumbnail buffer is returned bare, or the request
\* throws; an error of convertToJpeg propagates.
ThumbnailReturn(r, threw, buff) ==
    /\ req' = IF threw
              THEN [req EXCEPT ![r].pc = "failed", ![r].error = "RenderFailure",
                               ![r].convert = "threw"]
              ELSE IF buff # Undefined
                   THEN [req EXCEPT ![r].pc = "done", ![r].convert = "returned",
                                    ![r].buff = buff,
                                    ![r].response = [contentType |-> "image/jpeg",
                                                     buffer |-> <<buff>>]]
                   ELSE [req EXCEPT ![r].pc = "failed", ![r].convert = "returned",
                                    ![r].buff = buff,
                                    ![r].error = "Failed to create thumbnail"]
    /\ UNCHANGED task

\* Lines 122-123 and 132-135: the rendered part. An error of convertToJpeg
\* propagates; Buffer.concat throws a TypeError on an undefined returnData.
RenderedPart(r, k, threw, returnData) ==
    IF threw THEN Reject(req, r, k, "RenderFailure")
    ELSE IF returnData = Undefined THEN Reject(req, r, k, "TypeError: undefined buffer")
    ELSE Resolve(req, r, k, Wrap("Content-Type:image/jpeg;" \o term, returnData))

-----------------------------------------------------------------------------
(* convertToJpeg (lines 49-79). A call c = <<request, slot>>: slot 0 is the *)
(* thumbnail call of the request, slot k the call of its k-th transform.    *)

NewCall(path, asThumbnail) ==
    [pc |-> "exec1", path |-> path, asThumbnail |-> asThumbnail, execs |-> 0,
     first |-> "none", second |-> "none", probes |-> 0, filePath |-> ""]

\* The tool reads its input: it fails when the input file does not exist.
InputReadable(c) == fileExists(rc[c].path, dirExists, objs)

\* The call returns res or throws, and its caller continues.
Settle(c, threw, res) ==
    /\ rc' = [d \in DOMAIN rc \ {c} |-> rc[d]]
    /\ IF c[2] = 0 THEN ThumbnailReturn(c[1], threw, res)
       ELSE RenderedPart(c[1], c[2], threw, res)

\* Lines 50-55: dcmj2pnm on the single frame, output `${filepath}.jpg`.
\* The tool fails, or succeeds and (normally) leaves its output file.
ExecSingleFrame(c) ==
    /\ c \in DOMAIN rc
    /\ rc[c].pc = "exec1"
    /\ \/ /\ InputReadable(c)
          /\ rc' = [rc EXCEPT ![c].first = "ok", ![c].execs = @ + 1, ![c].pc = "probe1"]
          /\ \E wrote \in BOOLEAN :
                jpg' = IF wrote
                       THEN [jpg EXCEPT ![<<rc[c].path[1], ".jpg">>] =
                                [q |-> Quality(rc[c].asThumbnail), by |-> c]]
                       ELSE jpg
       \/ /\ rc' = [rc EXCEPT ![c].first = "failed", ![c].execs = @ + 1, ![c].pc = "exec2"]
          /\ UNCHANGED jpg
    /\ UNCHANGED <<dirExists, objs, req, task>>
    /\ UNCHANGED mimeType

\* A second attempt whose failure is swallowed.
ExecAllFramesSwallowed(c) ==
    /\ c \in DOMAIN rc
    /\ rc[c].pc = "exec2"
    /\ \/ /\ InputReadable(c)
          /\ rc' = [rc EXCEPT ![c].second = "ok", ![c].execs = @ + 1, ![c].pc = "probe1"]
          /\ \E wrote \in BOOLEAN :
                jpg' = IF wrote
                       THEN [jpg EXCEPT ![<<rc[c].path[1], ".0.jpg">>] =
                                [q |-> Quality(rc[c].asThumbnail), by |-> c]]
                       ELSE jpg
       \/ /\ rc' = [rc EXCEPT ![c].second = "failed", ![c].execs = @ + 1, ![c].pc = "probe1"]
          /\ UNCHANGED jpg
    /\ UNCHANGED <<dirExists, objs, req, task>>
    /\ UNCHANGED mimeType

\* Lines 56-62: the catch block: dcmj2pnm again with '+Fa' and the output
\* prefix `${filepath}` (frame files <prefix>.<n>.jpg); its error is not caught.
ExecAllFrames(c) ==
    /\ c \in DOMAIN rc
    /\ rc[c].pc = "exec2"
    /\ \/ /\ InputReadable(c)
          /\ rc' = [rc EXCEPT ![c].second = "ok", ![c].execs = @ + 1, ![c].pc = "probe1"]
          /\ \E wrote \in BOOLEAN :
                jpg' = IF wrote
                       THEN [jpg EXCEPT ![<<rc[c].path[1], ".0.jpg">>] =
                                [q |-> Quality(rc[c].asThumbnail), by |-> c]]
                       ELSE jpg
          /\ UNCHANGED <<req, task>>
       \/ /\ Settle(c, TRUE, Undefined)
          /\ UNCHANGED jpg
    /\ UNCHANGED <<dirExists, objs>>
    /\ UNCHANGED mimeType

\* fileExists(`${filepath}<ext>`)
jpgExists(path, ext, j) == Len(path) = 1 /\ j[<<path[1], ext>>] # NoFile

\* Lines 63-67: probe `${filepath}.jpg`.
ProbeJpg(c) ==
    /\ c \in DOMAIN rc
    /\ rc[c].pc = "probe1"
    /\ rc' = IF jpgExists(rc[c].path, ".jpg", jpg)
             THEN [rc EXCEPT ![c].filePath = ".jpg", ![c].probes = @ + 1, ![c].pc = "read"]
             ELSE [rc EXCEPT ![c].probes = @ + 1, ![c].pc = "probe2"]
    /\ UNCHANGED <<disk, req, task>>
    /\ UNCHANGED mimeType

\* A second probe that looks for another file name and never finds it.
ProbeFrameJpgMissed(c) ==
    /\ c \in DOMAIN rc
    /\ rc[c].pc = "probe2"
    /\ Settle(c, FALSE, Undefined)
    /\ UNCHANGED disk
    /\ UNCHANGED mimeType

\* Lines 68-73 and 78: probe `${filepath}.0.jpg`; neither exists: undefined.
ProbeFrameJpg(c) ==
    /\ c \in DOMAIN rc
    /\ rc[c].pc = "probe2"
    /\ IF jpgExists(rc[c].path, ".0.jpg", jpg)
       THEN /\ rc' = [rc EXCEPT ![c].filePath = ".0.jpg", ![c].probes = @ + 1, ![c].pc = "read"]
            /\ UNCHANGED <<req, task>>
       ELSE Settle(c, FALSE, Undefined)
    /\ UNCHANGED disk
    /\ UNCHANGED mimeType

\* Lines 75-77: return fs.readFile(filePath)
ReadJpg(c) ==
    /\ c \in DOMAIN rc
    /\ rc[c].pc = "read"
    /\ LET f == jpg[<<rc[c].path[1], rc[c].filePath>>]
       IN  Settle(c, FALSE, JpegBytes(rc[c].path[1], rc[c].filePath, f.q, f.by))
    /\ UNCHANGED disk
    /\ UNCHANGED mimeType

-----------------------------------------------------------------------------
(* doWadoRs: the thumbnail branch (lines 189-193).                          *)

\* Lines 192-193: the path handed to convertToJpeg; path.join throws a
\* TypeError when foundInstances[0] is undefined.
ThumbnailStart(r) ==
    /\ req[r].pc = "thumbnail"
    /\ IF req[r].isDir /\ req[r].foundInstances = <<>>
       THEN /\ req' = Fail(r, "TypeError: path argument undefined")
            /\ UNCHANGED rc
       ELSE /\ rc' = (<<r, 0>> :> NewCall(IF req[r].isDir
                                           THEN pathname(r) \o <<req[r].foundInstances[1]>>
                                           ELSE pathname(r), TRUE)) @@ rc
            /\ req' = [req EXCEPT ![r].pc = "thumbnailWait"]
    /\ UNCHANGED <<disk, task>>
    /\ UNCHANGED mimeType

-----------------------------------------------------------------------------
(* addFileToBuffer (lines 89-136).                                          *)

\* Lines 93-97: the transfer syntax handed to compressFile.
transferSyntax(fmt) == IF fmt # Unset THEN "1.2.840.10008.1.2" ELSE Unset

\* The promise of a directory entry that is not in foundInstances: undefined.
SkipTask(i) ==
    [pc |-> "skip", file |-> i, syntax |-> Unset, returnData |-> Undefined,
     part |-> <<Undefined>>, err |-> ""]

NewTask(i, fmt) ==
    [pc |-> "read", file |-> i, syntax |-> transferSyntax(fmt), returnData |-> Undefined,
     part |-> <<Undefined>>, err |-> ""]

\* A lookup that goes on with undefined offset and length: Buffer.from then
\* views the whole underlying buffer.
PixelPartUnchecked(rq, r, k, i, present) ==
    Resolve(rq, r, k, Wrap("Content-Type:application/octet-stream;" \o term,
                           IF present THEN PixelBytes(i) ELSE DicomBytes(i)))

\* Lines 114-117: the Pixel Data element x7fe00010 of the parsed object and
\* the view of its bytes; with no such element, reading `.dataOffset` of
\* undefined throws a TypeError.
PixelPart(rq, r, k, i, present) ==
    IF present
    THEN Resolve(rq, r, k, Wrap("Content-Type:application/octet-stream;" \o term,
                                PixelBytes(i)))
    ELSE Reject(rq, r, k, "TypeError: no Pixel Data element")

\* A transcoding whose failure is thrown on to the caller.
compressThrown(compressed) == IF compressed = "failed" THEN "Failed to compress" ELSE ""

\* Lines 99-105: what the try/catch around compressFile lets through to the
\* caller: nothing, the catch block only logs.
compressCaught(compressed) == ""

\* Lines 99-131: compressFile, whose failure is logged (compressFailed: the
\* request has logged 'Failed to compress') and swallowed; then
\* fs.readFile(filepath), whose failure propagates; then the switch on
\* dataFormat: the parser throws, or the object has no Pixel Data element
\* (a TypeError on `pixelDataElement.dataOffset`), or the payload is built;
\* 'rendered' calls convertToJpeg.
ReadObject(r, k) ==
    /\ k \in 1..Len(task[r])
    /\ task[r][k].pc = "read"
    /\ \E compressed \in {"ok", "failed"} :
       LET i == task[r][k].file
           fmt == req[r].fmt
           rq == [req EXCEPT ![r].compressFailed = @ \/ (compressed = "failed")]
           thrown == compressCaught(compressed)
       IN  \/ /\ Reject(rq, r, k, IF thrown # "" THEN thrown ELSE "ReadFailure")
              /\ UNCHANGED rc
           \/ /\ thrown = ""
              /\ i \in objs
              /\ fmt \in {"bulkData", "pixelData"}
              /\ \/ Reject(rq, r, k, "ParseFailure")
                 \/ \E present \in BOOLEAN : PixelPart(rq, r, k, i, present)
              /\ UNCHANGED rc
           \/ /\ thrown = ""
              /\ i \in objs
              /\ fmt = "rendered"
              /\ rc' = (<<r, k>> :> NewCall(<<i>>, FALSE)) @@ rc
              /\ task' = [task EXCEPT ![r][k].pc = "render"]
              /\ req' = rq
           \/ /\ thrown = ""
              /\ i \in objs
              /\ fmt = Unset
              /\ Resolve(rq, r, k, Wrap("Content-Type:" \o config.MIMETYPE
                                           \o ";transfer-syntax:" \o config.XTRANSFER \o term,
                                           DicomBytes(i)))
              /\ UNCHANGED rc
    /\ UNCHANGED disk
    /\ UNCHANGED mimeType

-----------------------------------------------------------------------------
(* doWadoRs: enumerate and transform (lines 205-219).                       *)

\* A directory entry: <<i, "">> is the object of instance i, <<i, ext>> a
\* JPEG beside it.
DirEntries == {<<i, "">> : i \in objs} \cup {e \in Insts \X JpgExts : jpg[e] # NoFile}

Rank(e) == 3 * e[1] + (CASE e[2] = "" -> 0 [] e[2] = ".jpg" -> 1 [] OTHER -> 2)

RECURSIVE Ascending(_)
Ascending(S) ==
    IF S = {} THEN <<>>
    ELSE LET m == CHOOSE e \in S : \A f \in S : Rank(e) <= Rank(f)
         IN  <<m>> \o Ascending(S \ {m})

Reverse(s) == [k \in 1..Len(s) |-> s[Len(s) + 1 - k]]

\* The orders fs.readdir may produce.
Listings(S) == {Ascending(S), Reverse(Ascending(S))}

\* A test that accepts every entry whose name begins with an expected UID.
includesPrefix(found, e) == \E k \in 1..Len(found) : found[k] = e[1]

\* foundInstances.includes(file)
includes(found, e) == e[2] = "" /\ \E k \in 1..Len(found) : found[k] = e[1]

\* Lines 209-214: list the directory and start one transform per entry that
\* is in foundInstances; readdir throws when pathname is no directory. With
\* no transform to wait for, the response is assembled at once.
ReadDir(r) ==
    /\ req[r].pc = "readdir"
    /\ IF ~fileExists(pathname(r), dirExists, objs)
       THEN /\ req' = Fail(r, "ENOENT")
            /\ UNCHANGED task
       ELSE IF Len(pathname(r)) # 0
       THEN /\ req' = Fail(r, "ENOTDIR")
            /\ UNCHANGED task
       ELSE \E files \in Listings(DirEntries) :
            LET ts == [k \in 1..Len(files) |->
                         IF includes(req[r].foundInstances, files[k])
                         THEN NewTask(files[k][1], req[r].fmt)
                         ELSE SkipTask(files[k][1])]
                rq == [req[r] EXCEPT !.listed = TRUE, !.files = files, !.pc = "transform"]
            IN  /\ task' = [task EXCEPT ![r] = ts]
                /\ req' = [req EXCEPT ![r] =
                             IF \A k \in 1..Len(ts) : ts[k].pc = "skip"
                             THEN Assemble(rq, ts) ELSE rq]
    /\ UNCHANGED <<disk, rc>>
    /\ UNCHANGED mimeType

\* Line 218: the one file of a single-object scope.
SingleFile(r) ==
    /\ req[r].pc = "single"
    /\ req' = [req EXCEPT ![r].pc = "transform"]
    /\ task' = [task EXCEPT ![r] = <<NewTask(req[r].sop, req[r].fmt)>>]
    /\ UNCHANGED <<disk, rc>>
    /\ UNCHANGED mimeType

-----------------------------------------------------------------------------
Calls == Requests \X (0..(3 * MaxInst))

Next ==
    \/ \E r \in Requests : CheckPath(r)
    \/ \E r \in Requests : FindInstances(r)
    \/ \E r \in Requests : \E k \in 1..(MaxInst + 1) : ProbeInstance(r, k)
    \/ \E r \in Requests : UseCacheDir(r)
    \/ \E r \in Requests : UseCacheFile(r)
    \/ \E r \in Requests : FetchCall(r)
    \/ \E r \in Requests : FetchReturn(r)
    \/ \E r \in Requests : ThumbnailStart(r)
    \/ \E c \in Calls : ExecSingleFrame(c)
    \/ \E c \in Calls : ExecAllFrames(c)
    \/ \E c \in Calls : ProbeJpg(c)
    \/ \E c \in Calls : ProbeFrameJpg(c)
    \/ \E c \in Calls : ReadJpg(c)
    \/ \E r \in Requests : ReadDir(r)
    \/ \E r \in Requests : SingleFile(r)
    \/ \E r \in Requests : \E k \in 1..(3 * MaxInst) : ReadObject(r, k)

Spec == Init /\ [][Next]_vars

-----------------------------------------------------------------------------
(* Two invocations of doWadoRs for one scope, followed through the cache    *)
(* check and the fetch (lines 154-187).                                     *)

InitFetch ==
    /\ InitDisk
    /\ \E study \in Studies, series \in {NoUid, 1}, sop \in {NoUid, 1} :
          req = [r \in Requests |-> NewReq(study, series, sop, Unset)]
    /\ task = [r \in Requests |-> <<>>]
    /\ rc = <<>>
    /\ mimeType = "application/dicom"

NextFetch ==
    \/ \E r \in Requests : CheckPath(r)
    \/ \E r \in Requests : FindInstances(r)
    \/ \E r \in Requests : \E k \in 1..(MaxInst + 1) : ProbeInstance(r, k)
    \/ \E r \in Requests : UseCacheDir(r)
    \/ \E r \in Requests : UseCacheFile(r)
    \/ \E r \in Requests : FetchCall(r)
    \/ \E r \in Requests : FetchReturn(r)

SpecFetch == InitFetch /\ [][NextFetch]_vars

-----------------------------------------------------------------------------
(* Two invocations of doWadoRs for one instance that is on disk, a          *)
(* thumbnail request and a rendered request: their convertToJpeg calls run  *)
(* on the same path (lines 49-79).                                          *)

InitRender ==
    /\ InitDisk
    /\ 1 \in objs
    /\ \E study \in Studies :
          req = [r \in Requests |->
                    NewReq(study, NoUid, 1, IF r = 1 THEN "thumbnail" ELSE "rendered")]
    /\ task = [r \in Requests |-> <<>>]
    /\ rc = <<>>
    /\ mimeType = "application/dicom"

NextRender ==
    \/ \E r \in Requests : CheckPath(r)
    \/ \E r \in Requests : UseCacheFile(r)
    \/ \E r \in Requests : ThumbnailStart(r)
    \/ \E r \in Requests : SingleFile(r)
    \/ \E r \in Requests : \E k \in 1..(3 * MaxInst) : ReadObject(r, k)
    \/ \E c \in Calls : ExecSingleFrame(c)
    \/ \E c \in Calls : ExecAllFrames(c)
    \/ \E c \in Calls : ProbeJpg(c)
    \/ \E c \in Calls : ProbeFrameJpg(c)
    \/ \E c \in Calls : ReadJpg(c)

SpecRender == InitRender /\ [][NextRender]_vars

-----------------------------------------------------------------------------
(* Properties.                                                              *)

Found(r) == {req[r].foundInstances[k] : k \in 1..Len(req[r].foundInstances)}

\* The disk is still as the cache check of r saw it: nothing but the fetch
\* of a request writes object files.
DiskAsChecked == \A r \in Requests : req[r].fetchState # "returned"

\* C1: all-or-nothing cache policy: in a directory-scope cache check, if the
\* metadata query yields at least one expected instance and the file of at
\* least one expected instance is missing, hit is false, however many of
\* the other expected files are present.
C1_AllOrNothing ==
    \A r \in Requests :
        (/\ req[r].isDir
         /\ req[r].hitKnown
         /\ DiskAsChecked
         /\ Len(req[r].foundInstances) >= 1
         /\ \E i \in Found(r) : i \notin objs)
        => ~req[r].useCache

\* C1 witness: a directory-scope check with two or more expected instances,
\* one present and one missing, that has decided on a miss.
C1_Witness ==
    \E r \in Requests :
        /\ req[r].isDir /\ req[r].hitKnown /\ DiskAsChecked
        /\ \E i, j \in Found(r) : i \in objs /\ j \notin objs
        /\ ~req[r].useCache

\* The steps of a request that come after the fetch: directory listing,
\* transform, render, response.
Started(r) ==
    \/ req[r].listed
    \/ task[r] # <<>>
    \/ \E c \in DOMAIN rc : c[1] = r
    \/ req[r].pc \in {"thumbnailWait", "transform", "done"}

\* C2: the fetch orchestrator is called exactly when the cache check misses:
\* not at all on a hit, once on a miss; the call carries the whole scope
\* (studyUid, seriesUid or '', instanceUid or '', queryLevel), STUDY level for
\* a request that names only the study; it has returned before any listing,
\* transform or render step of the request; a request for an instance that is
\* on disk makes no call.
C2_FetchOnMiss ==
    \A r \in Requests :
        /\ Len(req[r].fetchCalls) <= 1
        /\ (req[r].hitKnown /\ req[r].useCache) => req[r].fetchCalls = <<>>
        /\ (req[r].hitKnown /\ ~req[r].useCache /\ req[r].pc # "fetch")
              => Len(req[r].fetchCalls) = 1
        /\ ~req[r].hitKnown => req[r].fetchCalls = <<>>
        /\ \A n \in 1..Len(req[r].fetchCalls) :
              /\ req[r].fetchCalls[n][1] = req[r].study
              /\ req[r].fetchCalls[n][2] = req[r].series
              /\ req[r].fetchCalls[n][3] = req[r].sop
              /\ req[r].fetchCalls[n][4] \in {QUERY_LEVEL.STUDY, QUERY_LEVEL.SERIES,
                                              QUERY_LEVEL.IMAGE}
              /\ (req[r].series = NoUid /\ req[r].sop = NoUid)
                    => req[r].fetchCalls[n] = <<req[r].study, NoUid, NoUid, "STUDY">>
        /\ Started(r) => \/ req[r].useCache /\ req[r].fetchState = "none"
                         \/ req[r].fetchState = "returned"
        /\ (req[r].sop # NoUid /\ req[r].sop \in objs /\ DiskAsChecked)
              => req[r].fetchCalls = <<>>

\* C2 witness: a study-level request whose first expected instance was on
\* disk and another was not has made its one call (study, '', '', STUDY),
\* the call has returned and the directory has been listed.
C2_Witness ==
    \E r \in Requests :
        /\ req[r].series = NoUid /\ req[r].sop = NoUid
        /\ Len(req[r].probes) >= 2
        /\ req[r].probes[1] = "true"
        /\ \E k \in 2..Len(req[r].probes) : req[r].probes[k] = "false"
        /\ req[r].fetchCalls = <<<<req[r].study, NoUid, NoUid, "STUDY">>>>
        /\ req[r].fetchState = "returned"
        /\ req[r].listed

\* C3: scope classification follows instanceUid: a request that carries an
\* instanceUid is handled as a single-object scope and a request without one
\* as a directory scope.
C3_ScopeFollowsInstanceUid ==
    \A r \in Requests :
        req[r].pc \notin {"idle", "start"} => (req[r].isDir <=> req[r].sop = NoUid)

\* C4: empty-scope identity: a directory-scope check whose query yields no
\* expected instance is a hit, triggers no fetch, and a non-thumbnail
\* request then returns a body that is just the closing boundary.
C4_EmptyScope ==
    \A r \in Requests :
        (req[r].isDir /\ req[r].hitKnown /\ req[r].foundInstances = <<>>)
        => /\ req[r].useCache
           /\ req[r].fetchCalls = <<>>
           /\ (req[r].fmt # "thumbnail" /\ req[r].pc \in {"done", "failed"})
                 => /\ req[r].pc = "done"
                    /\ req[r].response.buffer = <<Text("--" \o req[r].study \o "--\r\n")>>

\* The instances whose payloads a buffer carries, in order.
RECURSIVE PayloadInsts(_)
PayloadInsts(b) ==
    IF b = <<>> THEN <<>>
    ELSE (IF Head(b).t \in {"dicom", "pixel", "jpeg"} THEN <<Head(b).i>> ELSE <<>>)
         \o PayloadInsts(Tail(b))

\* The listed entries that are expected instances, in listing order.
RECURSIVE SelectedFiles(_, _)
SelectedFiles(files, found) ==
    IF files = <<>> THEN <<>>
    ELSE (IF Head(files)[2] = "" /\ Head(files)[1] \in found THEN <<Head(files)[1]>> ELSE <<>>)
         \o SelectedFiles(Tail(files), found)

\* C5: order preservation: for a directory scope the parts of the multipart
\* buffer appear in the order in which the directory enumeration produced
\* the filenames, whatever the completion order of the transforms.
C5_OrderPreserved ==
    \A r \in Requests :
        (req[r].pc = "done" /\ req[r].listed)
        => PayloadInsts(req[r].response.buffer) = SelectedFiles(req[r].files, Found(r))

\* C5 witness: a directory-scope response of two or more parts whose
\* transforms completed in another order than the listing.
C5_Witness ==
    \E r \in Requests :
        /\ req[r].pc = "done" /\ req[r].listed
        /\ \E a, b \in 1..Len(req[r].doneOrder) :
              a < b /\ req[r].doneOrder[a] > req[r].doneOrder[b]

\* The parts of the resolved transforms of a request, in index order.
DoneParts(r) ==
    LET RECURSIVE Sel(_)
        Sel(ts) == IF ts = <<>> THEN <<>>
                   ELSE (IF Head(ts).pc = "done" THEN <<Head(ts).part>> ELSE <<>>)
                        \o Sel(Tail(ts))
    IN  Sel(task[r])

\* Where the opening marker of part j stands in the buffer, less one.
RECURSIVE PartOffset(_, _)
PartOffset(ps, j) == IF j <= 1 THEN 0 ELSE PartOffset(ps, j - 1) + 1 + Len(ps[j - 1])

\* C6: boundary correctness: a multipart response buffer is, for each
\* non-absent part in order, the opening marker `--<studyUid>` CRLF and the
\* part's bytes, then exactly one closing marker `--<studyUid>--` CRLF at
\* the very end; with zero parts it is just the closing marker; no part is
\* missing from the buffer when the response is returned.
C6_Boundaries ==
    \A r \in Requests :
        (req[r].pc = "done" /\ req[r].fmt # "thumbnail")
        => LET b == req[r].response.buffer
               ps == DoneParts(r)
               opening == Text("--" \o req[r].study \o "\r\n")
               closing == Text("--" \o req[r].study \o "--\r\n")
           IN  /\ Len(b) = PartOffset(ps, Len(ps) + 1) + 1
               /\ b[Len(b)] = closing
               /\ \A n \in 1..(Len(b) - 1) : b[n] # closing
               /\ \A j \in 1..Len(ps) :
                     /\ b[PartOffset(ps, j) + 1] = opening
                     /\ SubSeq(b, PartOffset(ps, j) + 2, PartOffset(ps, j) + 1 + Len(ps[j]))
                           = ps[j]
               /\ ps = <<>> => b = <<closing>>

\* C6 witness: a multipart response of two or more parts.
C6_Witness ==
    \E r \in Requests :
        /\ req[r].pc = "done" /\ req[r].fmt # "thumbnail"
        /\ Len(DoneParts(r)) >= 2

\* C7: thumbnail short-circuit: a thumbnail request never lists the
\* directory, transforms an object or assembles a multipart body; it
\* returns the bare {image/jpeg, renderer bytes}, or, when the renderer
\* returns absent, fails with the thumbnail error and no response.
C7_ThumbnailShortCircuit ==
    \A r \in Requests :
        req[r].fmt = "thumbnail"
        => /\ ~req[r].listed
           /\ task[r] = <<>>
           /\ req[r].pc \notin {"readdir", "single", "transform"}
           /\ req[r].pc = "done"
                 => /\ req[r].convert = "returned"
                    /\ req[r].buff.t = "jpeg"
                    /\ req[r].response = [contentType |-> "image/jpeg",
                                          buffer |-> <<req[r].buff>>]
           /\ (req[r].convert = "returned" /\ req[r].buff = Undefined)
                 => /\ req[r].pc = "failed"
                    /\ req[r].error = "Failed to create thumbnail"
           /\ req[r].pc = "failed" => req[r].response = NoResponse

\* C7 witness: the renderer returned absent to a thumbnail request.
C7_Witness ==
    \E r \in Requests :
        /\ req[r].fmt = "thumbnail"
        /\ req[r].convert = "returned" /\ req[r].buff = Undefined
        /\ req[r].pc = "failed"

\* What the caller of call c holds once the call has settled: the error it
\* failed with and the value it received.
CallerError(c, rq, ts) == IF c[2] = 0 THEN rq[c[1]].error ELSE ts[c[1]][c[2]].err

CallerValue(c, rq, ts) == IF c[2] = 0 THEN rq[c[1]].buff ELSE ts[c[1]][c[2]].returnData

C8_Step ==
    \A c \in DOMAIN rc :
        /\ c \in DOMAIN rc'
              => /\ rc'[c].execs <= 2
                 /\ rc'[c].execs >= rc[c].execs
                 /\ rc'[c].second # "none" => rc[c].first = "failed"
                 /\ (rc'[c].probes > 0 \/ rc'[c].pc \in {"probe1", "probe2", "read"})
                       => /\ (rc'[c].first = "ok" \/ rc'[c].second = "ok")
                          /\ rc'[c].execs = rc[c].execs \/ rc[c].probes = 0
                 /\ rc'[c].probes > rc[c].probes => rc'[c].execs = rc[c].execs
        /\ (rc[c].pc = "exec2" /\ c \notin DOMAIN rc')
              => /\ CallerError(c, req', task') = "RenderFailure"
                 /\ rc[c].probes = 0
                 /\ jpg' = jpg

\* C8: renderer retry policy: a render call runs the JPEG tool at most
\* twice, the second time only after the first attempt failed; a failure of
\* the second attempt propagates to the caller with no further attempt and
\* no probe; the output files are probed only after an attempt succeeded.
C8_RetryPolicy == [][C8_Step]_vars

\* C8 witness: a call whose first attempt failed and whose second attempt
\* succeeded is probing the output files.
C8_Witness ==
    \E c \in DOMAIN rc :
        /\ rc[c].execs = 2 /\ rc[c].first = "failed" /\ rc[c].second = "ok"
        /\ rc[c].probes >= 1

\* The bytes of `<path><ext>` on disk.
JpgOnDisk(path, ext) == JpegBytes(path[1], ext, jpg[<<path[1], ext>>].q, jpg[<<path[1], ext>>].by)

C9_Step ==
    \A c \in DOMAIN rc :
        (rc[c].pc \in {"probe2", "read"} /\ c \notin DOMAIN rc')
        => /\ CallerValue(c, req', task') =
                 IF jpgExists(rc[c].path, ".jpg", jpg) THEN JpgOnDisk(rc[c].path, ".jpg")
                 ELSE IF jpgExists(rc[c].path, ".0.jpg", jpg) THEN JpgOnDisk(rc[c].path, ".0.jpg")
                 ELSE Undefined
           /\ (rc[c].second = "ok" /\ jpg[<<rc[c].path[1], ".0.jpg">>].by = c)
                 => CallerValue(c, req', task') # Undefined

\* C9: renderer fallback and output probing: after a successful attempt the
\* renderer returns the bytes of `<path>.jpg` if that file exists, else those
\* of `<path>.0.jpg` if that exists, else absent; when the single-frame
\* attempt fails and the all-frames attempt succeeds and writes its
\* frame-indexed output, the result is not absent.
C9_ProbeOrder == [][C9_Step]_vars

\* C9 witness: a thumbnail call whose first attempt failed returned the
\* `.0.jpg` its own second attempt wrote.
C9_Witness ==
    \E r \in Requests :
        /\ req[r].convert = "returned"
        /\ req[r].buff.t = "jpeg" /\ req[r].buff.s = ".0.jpg"
        /\ req[r].buff.by = <<r, 0>>

\* C10: an absent render result on the rendered path is not fatal: no
\* transform and no request fails because convertToJpeg returned undefined.
C10_AbsentNotFatal ==
    \A r \in Requests :
        req[r].fmt = "rendered"
        => /\ req[r].error # "TypeError: undefined buffer"
           /\ \A k \in 1..Len(task[r]) : task[r][k].err # "TypeError: undefined buffer"

\* The number of payloads a buffer carries.
Parts(b) == Len(PayloadInsts(b))

\* C11: no partial success: in a non-thumbnail request, once the transform
\* of any selected object has failed (read, parse or renderer failure) the
\* request has failed with the error of a failed transform and holds no
\* response, whatever the other transforms did; a response is returned only
\* when every selected entry resolved, it carries one part per selected
\* entry, and the entries without a part are exactly the directory entries
\* that are not in the expected-instance set.
C11_NoPartialSuccess ==
    \A r \in Requests :
        req[r].fmt # "thumbnail"
        => /\ (\E k \in 1..Len(task[r]) : task[r][k].pc = "failed")
                 => /\ req[r].pc = "failed"
                    /\ req[r].response = NoResponse
                    /\ \E k \in 1..Len(task[r]) :
                          task[r][k].pc = "failed" /\ task[r][k].err = req[r].error
           /\ req[r].pc = "failed" => req[r].response = NoResponse
           /\ req[r].pc = "done"
                 => /\ \A k \in 1..Len(task[r]) : task[r][k].pc \in {"done", "skip"}
                    /\ Parts(req[r].response.buffer) =
                          Cardinality({k \in 1..Len(task[r]) : task[r][k].pc = "done"})
                    /\ req[r].listed
                          => \A k \in 1..Len(task[r]) :
                                task[r][k].pc = "skip"
                                   <=> ~includes(req[r].foundInstances, req[r].files[k])

\* C11 witness: a request has failed with the error of its one failed
\* transform while another of its transforms has produced its part.
C11_Witness ==
    \E r \in Requests :
        /\ req[r].pc = "failed" /\ req[r].response = NoResponse
        /\ \E k, j \in 1..Len(task[r]) :
              /\ task[r][k].pc = "failed" /\ task[r][k].err = req[r].error
              /\ task[r][j].pc = "done" /\ task[r][j].part # <<Undefined>>

\* The media type T the response of a dataFormat announces.
ResponseType(fmt) ==
    CASE fmt = Unset -> "application/dicom"
      [] fmt = "rendered" -> "image/jpeg"
      [] OTHER -> "application/octet-stream"

\* C12: response content type: every non-thumbnail response has contentType
\* multipart/related;type='<T>';boundary=<studyUid>, T being application/dicom
\* for an unset dataFormat, image/jpeg for rendered and
\* application/octet-stream for pixelData and bulkData, the boundary being
\* the studyUid verbatim; and the Content-Type line of every part names T.
C12_ContentType ==
    \A r \in Requests :
        (req[r].pc = "done" /\ req[r].fmt # "thumbnail")
        => LET T == ResponseType(req[r].fmt)
           IN  /\ req[r].response.contentType =
                     "multipart/related;type='" \o T \o "';boundary=" \o req[r].study
               /\ \A k \in 1..Len(task[r]) :
                     task[r][k].pc = "done"
                     => task[r][k].part[1] \in
                           {Text("Content-Type:" \o T \o ";" \o term),
                            Text("Content-Type:" \o T \o ";transfer-syntax:"
                                    \o config.XTRANSFER \o term)}

\* C13: directory-scope filtering: a listed directory entry is transformed
\* (and, in a response, contributes a part) if and only if its filename is
\* in the expected-instance set recorded by the cache check; every other
\* entry, the .jpg files beside the objects included, contributes nothing,
\* so a response never has more parts than distinct expected instances.
C13_DirectoryFilter ==
    \A r \in Requests :
        req[r].listed
        => /\ Len(task[r]) = Len(req[r].files)
           /\ \A k \in 1..Len(req[r].files) :
                 LET e == req[r].files[k]
                     expected == e[2] = "" /\ e[1] \in Found(r)
                 IN  /\ expected => task[r][k].pc # "skip" /\ task[r][k].file = e[1]
                     /\ ~expected => /\ task[r][k].pc = "skip"
                                     /\ task[r][k].part = <<Undefined>>
                                     /\ <<r, k>> \notin DOMAIN rc
                     /\ req[r].pc = "done" =>
                           (expected <=> task[r][k].part # <<Undefined>>)
           /\ req[r].pc = "done"
                 => /\ Parts(req[r].response.buffer) <= Cardinality(Found(r))
                    /\ \A n \in 1..Len(req[r].response.buffer) :
                          req[r].response.buffer[n].t \in {"dicom", "pixel", "jpeg"}
                          => req[r].response.buffer[n].i \in Found(r)

\* C13 witness: a directory-scope response with a part, whose listing also
\* held an object that is not expected and a .jpg beside an object.
C13_Witness ==
    \E r \in Requests :
        /\ req[r].listed /\ req[r].pc = "done"
        /\ Parts(req[r].response.buffer) >= 1
        /\ \E k, j \in 1..Len(req[r].files) :
              /\ req[r].files[k][2] = "" /\ req[r].files[k][1] \notin Found(r)
              /\ req[r].files[j][2] # ""

\* The errors of the steps that follow the transcoding: the file read, the
\* parser, the Pixel Data lookup.
LaterErrors == {"ReadFailure", "ParseFailure", "TypeError: no Pixel Data element"}

C14_Step ==
    \A r \in Requests : \A k \in 1..Len(task[r]) :
        (task[r][k].pc = "read" /\ task'[r][k].pc # "read")
        => /\ task'[r][k].pc \in {"done", "render", "failed"}
           /\ task'[r][k].pc = "failed" => task'[r][k].err \in LaterErrors
           /\ task'[r][k].pc = "done" => task'[r][k].part # <<Undefined>>
           /\ task'[r][k].err = "ReadFailure"
                 => /\ task'[r][k].pc = "failed"
                    /\ task'[r][k].part = <<Undefined>>
                    /\ req'[r].pc = "failed"
                    /\ req'[r].response = NoResponse
                    /\ req[r].pc = "transform" => req'[r].error = "ReadFailure"

\* C14: transcode failure is non-fatal and read failure is fatal: a transform
\* never fails because the transcoder failed (the failure is logged and the
\* transform goes on to the read, from which it produces its part, starts
\* its render or fails with the error of the read or a later step); a
\* failure of the file read fails the transform, which yields no part, and
\* fails the request, which returns no response.
C14_TranscodeNonFatal == [][C14_Step]_vars

\* C14 witness: a single-object request whose transcoding failed has
\* returned a response with the part of its one transform.
C14_Witness ==
    \E r \in Requests :
        /\ req[r].compressFailed /\ ~req[r].listed
        /\ req[r].pc = "done"
        /\ Len(task[r]) = 1 /\ task[r][1].pc = "done"
        /\ Parts(req[r].response.buffer) = 1

\* C15: no fetch deduplication: two requests for one scope that both decide
\* their cache check before any fetch has returned decide alike, so both
\* observe the miss; a request that has observed a miss can make its call
\* whatever the state of the other request's fetch, and has made exactly one
\* call of its own once it is past that point.
C15_NoDeduplication ==
    /\ ((\A r \in Requests : req[r].hitKnown) /\ DiskAsChecked)
          => \A r, o \in Requests : req[r].useCache = req[o].useCache
    /\ \A r \in Requests :
          /\ req[r].pc = "fetch" => ENABLED FetchCall(r)
          /\ (req[r].hitKnown /\ ~req[r].useCache /\ req[r].pc # "fetch")
                => /\ Len(req[r].fetchCalls) = 1
                   /\ req[r].fetchState # "none"

\* C15 witness: both requests missed and the fetches of both, for the same
\* scope, are in flight at once.
C15_Witness ==
    /\ \A r \in Requests :
          /\ req[r].hitKnown /\ ~req[r].useCache
          /\ req[r].fetchState = "called"
          /\ Len(req[r].fetchCalls) = 1
    /\ req[1].fetchCalls = req[2].fetchCalls

\* C16: query level derivation: the level passed to the fetch orchestrator
\* depends only on the presence of seriesUid: STUDY whenever seriesUid is
\* absent, instanceUid present or not, and one and the same level (SERIES)
\* whenever seriesUid is present, instanceUid present or not; the metadata
\* query of the cache check is always issued at IMAGE level.
C16_QueryLevel ==
    \A r \in Requests :
        /\ \A n \in 1..Len(req[r].fetchCalls) :
              req[r].fetchCalls[n][4] =
                 IF req[r].series = NoUid THEN QUERY_LEVEL.STUDY ELSE QUERY_LEVEL.SERIES
        /\ req[r].pc = "probe" => req[r].findLevel = QUERY_LEVEL.IMAGE
        /\ req[r].findLevel \in {"", QUERY_LEVEL.IMAGE}

\* C16 witness: a request that names an instance and no series has queried
\* at IMAGE level and called the fetch at STUDY level.
C16_Witness ==
    \E r \in Requests :
        /\ req[r].series = NoUid /\ req[r].sop # NoUid
        /\ req[r].findLevel = QUERY_LEVEL.IMAGE
        /\ Len(req[r].fetchCalls) = 1
        /\ req[r].fetchCalls[1][4] = QUERY_LEVEL.STUDY

\* C17: missing Pixel Data is a failure: for pixelData and bulkData, a
\* transform whose object has no Pixel Data element fails with an error and
\* yields no part, and its request fails and returns no response; every part
\* these formats produce carries the Pixel Data bytes of its own object,
\* never bytes taken at undefined offsets.
C17_MissingPixelData ==
    \A r \in Requests :
        req[r].fmt \in {"pixelData", "bulkData"}
        => /\ \A k \in 1..Len(task[r]) :
                 /\ task[r][k].err = "TypeError: no Pixel Data element"
                       => /\ task[r][k].pc = "failed"
                          /\ task[r][k].part = <<Undefined>>
                          /\ req[r].pc = "failed"
                          /\ req[r].error # ""
                          /\ req[r].response = NoResponse
                 /\ task[r][k].pc = "done"
                       => task[r][k].part[3] = PixelBytes(task[r][k].file)
           /\ \A n \in 1..Len(req[r].response.buffer) :
                 req[r].response.buffer[n].t \in {"text", "pixel"}

\* C17 witness: a pixelData request over a directory failed on an object
\* without Pixel Data after another object had yielded its part.
C17_Witness ==
    \E r \in Requests :
        /\ req[r].fmt = "pixelData"
        /\ req[r].pc = "failed"
        /\ req[r].error = "TypeError: no Pixel Data element"
        /\ \E k, j \in 1..Len(task[r]) :
              /\ task[r][k].err = "TypeError: no Pixel Data element"
              /\ task[r][j].pc = "done"

\* C18: a cold-cache single-instance request completes: a non-thumbnail
\* request that names an instance whose file was not on disk at the cache
\* check, and whose fetch has returned having created that file, does not
\* fail on account of the scope classification made before the fetch (the
\* listing of its path), and its response has exactly one part, that of the
\* instance.
C18_ColdInstanceCompletes ==
    \A r \in Requests :
        (/\ req[r].fmt # "thumbnail"
         /\ req[r].sop # NoUid
         /\ req[r].hitKnown /\ ~req[r].useCache
         /\ req[r].fetchState = "returned"
         /\ req[r].sop \in objs)
        => /\ req[r].pc = "failed" => req[r].error \notin {"ENOTDIR", "ENOENT"}
           /\ req[r].pc = "done"
                 => PayloadInsts(req[r].response.buffer) = <<req[r].sop>>

\* C19: render output belongs to its own invocation: the JPEG bytes a render
\* call hands to its caller were written by that call itself, at the quality
\* it asked for (10 for the thumbnail call of a request, 100 for the call of
\* a rendered transform), never by another or an earlier call.
C19_OwnOutput ==
    \A r \in Requests :
        /\ req[r].buff.t = "jpeg"
              => /\ req[r].buff.by = <<r, 0>>
                 /\ req[r].buff.q = Quality(TRUE)
        /\ \A k \in 1..Len(task[r]) :
              task[r][k].returnData.t = "jpeg"
              => /\ task[r][k].returnData.by = <<r, k>>
                 /\ task[r][k].returnData.q = Quality(FALSE)

\* Every expected instance of r was among the entries of its listing.
AllListed(r) ==
    \A i \in Found(r) : \E k \in 1..Len(req[r].files) : req[r].files[k] = <<i, "">>

\* A directory-scope response is complete.
Complete(r) ==
    (/\ req[r].fmt # "thumbnail"
     /\ req[r].sop = NoUid
     /\ req[r].listed)
    => /\ (req[r].useCache \/ req[r].fetchState = "returned") => AllListed(r)
       /\ (req[r].pc = "done" /\ AllListed(r))
             => LET ps == PayloadInsts(req[r].response.buffer)
                IN  /\ Len(ps) = Cardinality(Found(r))
                    /\ {ps[n] : n \in 1..Len(ps)} = Found(r)

C20_Step ==
    \A r \in Requests :
        /\ req[r].hitKnown => req'[r].foundInstances = req[r].foundInstances
        /\ Complete(r)'

\* C20: directory-scope completeness after the fetch: for a non-thumbnail
\* request without instanceUid, the file of every expected instance is in
\* the listing when the cache check hit or the fetch returned, and when all
\* of them are listed and every transform succeeded the response has
\* exactly one part for each distinct expected instance; the expected set is
\* the one recorded by the cache check and does not change after it.
C20_Completeness == [][C20_Step]_vars

\* C20 witness: a request that missed, fetched and listed two or more
\* expected instances has returned one part for each.
C20_Witness ==
    \E r \in Requests :
        /\ req[r].sop = NoUid /\ req[r].fmt # "thumbnail"
        /\ req[r].fetchState = "returned" /\ req[r].listed
        /\ req[r].pc = "done"
        /\ Cardinality(Found(r)) >= 2
        /\ Parts(req[r].response.buffer) = Cardinality(Found(r))

====
